---- MODULE Spec2Model ----
(***************************************************************************)
(* Finance parser core of PDFtoBPMN: MDParser.parse_md_content cuts the    *)
(* extracted text into one chunk per owner anchor and extracts the fields  *)
(* of an OwnerRecord from each chunk; XLSXExporter.export writes the       *)
(* records to a workbook and accumulates a ValidationReport.               *)
(*                                                                         *)
(* The text is a sequence of tokens.  A token stands for one literal       *)
(* phrase of the input format followed by one blank, and carries the       *)
(* number of characters it occupies (w), so that every offset the code     *)
(* computes (start_pos + 50, start_pos + 3000, start - 100) is an offset   *)
(* in characters.  A slice that ends inside a token keeps a prefix of it.  *)
(*                                                                         *)
(* Beside the finance parser the module has the retry loop of              *)
(* OCRClient._make_request, the start and the endpoints of the OCR         *)
(* service, and the page loop of PDFToContextPipeline.process; what the    *)
(* collaborators of these (the HTTP session, vllm, the PDF parser, the     *)
(* analyzer, the router, the extractors) return or raise is chosen         *)
(* nondeterministically.                                                   *)
(***************************************************************************)
EXTENDS Integers, Sequences, FiniteSets, TLC

\* ---------------------------------------------------------------- bounds
MaxBody == 4        \* tokens after the anchor in a single-chunk text
MaxBlocks == 4      \* blocks of a multi-chunk text
MaxRecords == 3     \* records handed to export by another source
MaxCalls == 3       \* calls of parse_md_content on one MDParser
MaxTotal == 10      \* total_records of a report handed to _add_stats_sheet
MaxFileBlocks == 3  \* blocks of the text in a file given to parse_md_file
MaxName == 4        \* blocks after the name label
MaxAddr == 3        \* blocks after the anchor in a text of the address family
MaxLines == 3       \* lines of a document section
MaxExports == 2     \* calls of export on one XLSXExporter
MaxQty == 4         \* blocks after the anchor in a text of the quantity family
MaxRetries == 3     \* max_retries given to OCRClient
MaxRequests == 3    \* requests the OCR service answers
MaxPages == 2       \* pages of a document given to process
MaxDocs == 2        \* calls of process on one PDFToContextPipeline

\* ------------------------------------------------------ program constants
SkipOffset == 50        \* content[start_pos + 50:]
TailCap == 3000         \* content[start_pos:start_pos + 3000]
ContextLen == 100       \* chunk[max(0, start - 100):start]
Sentinel == 4121600     \* qty_value != 4121600

\* lengths in characters of the literal phrases the patterns match
AnchorPhraseLen == 22   \* the anchor phrase of code_pattern
QtyLabelLen == 19       \* the quantity label
EncumberedLen == 17     \* the "of which encumbered" qualifier
PageBreakLabelLen == 15 \* "--- ## <page heading word>" and the blank after it
AddrStartLen == 17      \* the address label, a 2-letter code, a comma, a word
TerminatorLen == 18     \* the address terminator label
NameLabelLen == 21      \* the name label of the fio pattern
PostalAddrLen == 14     \* the postal address label that ends the name
HashLen == 2            \* "##"
PageWordLen == 8        \* the page heading word
AddrCodeLen == 8        \* the address label and a bare 2-letter code
BornLen == 13           \* the date-of-birth terminator label
LegalLen == 25          \* the legal-entity terminator label
DocLabelLen == 27       \* the label that opens the document section
BalanceLen == 23        \* the label that closes the document section
DateLen == 10           \* a DD.MM.YYYY date
KeywordLineLen == 18    \* a line naming the document type, two exclusion keywords
LowerLineLen == 5       \* a word in lower-case Cyrillic letters
PunctLineLen == 3       \* "---" on a line of its own
NameCap == 200          \* len(fio) > 200
NameKeep == 197         \* fio[:197]
EllipsisLen == 3        \* '...'
MinDocLen == 3          \* len(line) >= 3

\* ------------------------------------------------------------- optionals
None == [none |-> TRUE]
Some(v) == [none |-> FALSE, v |-> v]
IsSet(o) == ~o.none

Min(a, b) == IF a < b THEN a ELSE b
Max(a, b) == IF a > b THEN a ELSE b

RECURSIVE NumDigits(_)
NumDigits(n) == IF n < 10 THEN 1 ELSE 1 + NumDigits(n \div 10)

RECURSIVE Pow10(_)
Pow10(k) == IF k = 0 THEN 1 ELSE 10 * Pow10(k - 1)

\* the number written by the first k digits of n (k >= 1)
FirstDigits(n, k) == IF k >= NumDigits(n) THEN n ELSE n \div Pow10(NumDigits(n) - k)

\* ---------------------------------------------------------------- tokens
\* k: kind, c: owner code <<a, b>> written "a_b", n: number, w: characters
\* present (the full phrase and one blank unless a slice cut the token).
NoCode == <<0, 0>>
CodeLen(c) == NumDigits(c[1]) + 1 + NumDigits(c[2])

Anchor(c) == [k |-> "anchor", c |-> c, n |-> 0, w |-> AnchorPhraseLen + 1 + CodeLen(c) + 1]
Qty(n) == [k |-> "qty", c |-> NoCode, n |-> n, w |-> QtyLabelLen + 1 + NumDigits(n) + 1]
PageBreak(p) == [k |-> "brk", c |-> NoCode, n |-> p, w |-> PageBreakLabelLen + 1 + NumDigits(p) + 1]
Num(n) == [k |-> "num", c |-> NoCode, n |-> n, w |-> NumDigits(n) + 1]
Encumbered == [k |-> "enc", c |-> NoCode, n |-> 0, w |-> EncumberedLen + 1]
AddrStart == [k |-> "addr", c |-> NoCode, n |-> 0, w |-> AddrStartLen + 1]
Terminator == [k |-> "term", c |-> NoCode, n |-> 0, w |-> TerminatorLen + 1]
Fill(w) == [k |-> "fill", c |-> NoCode, n |-> 0, w |-> w]
NameLabel == [k |-> "name", c |-> NoCode, n |-> 0, w |-> NameLabelLen + 1]
PostalAddr == [k |-> "padr", c |-> NoCode, n |-> 0, w |-> PostalAddrLen + 1]
Hash == [k |-> "hash", c |-> NoCode, n |-> 0, w |-> HashLen + 1]
Page(p) == [k |-> "pg", c |-> NoCode, n |-> p, w |-> PageWordLen + 1 + NumDigits(p) + 1]
AddrCode == [k |-> "acode", c |-> NoCode, n |-> 0, w |-> AddrCodeLen + 1]
Born == [k |-> "born", c |-> NoCode, n |-> 0, w |-> BornLen + 1]
Legal == [k |-> "legal", c |-> NoCode, n |-> 0, w |-> LegalLen + 1]
DocLabel == [k |-> "doc", c |-> NoCode, n |-> 0, w |-> DocLabelLen + 1]
Balance == [k |-> "bal", c |-> NoCode, n |-> 0, w |-> BalanceLen + 1]
\* a newline: whitespace only
Newline == [k |-> "nl", c |-> NoCode, n |-> 0, w |-> 1]
\* lines of a document section; the character after each is a newline
DateLine == [k |-> "date", c |-> NoCode, n |-> 0, w |-> DateLen + 1]
KeywordLine == [k |-> "kw", c |-> NoCode, n |-> 0, w |-> KeywordLineLen + 1]
DocNo(n) == [k |-> "docno", c |-> NoCode, n |-> n, w |-> NumDigits(n) + 1]
LowerLine == [k |-> "lower", c |-> NoCode, n |-> 0, w |-> LowerLineLen + 1]
PunctLine == [k |-> "punct", c |-> NoCode, n |-> 0, w |-> PunctLineLen + 1]

\* characters of the token's phrase without the trailing blank
PhraseLen(t) ==
    CASE t.k = "anchor" -> AnchorPhraseLen + 1 + CodeLen(t.c)
      [] t.k = "qty" -> QtyLabelLen + 1 + NumDigits(t.n)
      [] t.k = "brk" -> PageBreakLabelLen + 1 + NumDigits(t.n)
      [] t.k = "num" -> NumDigits(t.n)
      [] t.k = "enc" -> EncumberedLen
      [] t.k = "addr" -> AddrStartLen
      [] t.k = "term" -> TerminatorLen
      [] t.k = "name" -> NameLabelLen
      [] t.k = "padr" -> PostalAddrLen
      [] t.k = "hash" -> HashLen
      [] t.k = "pg" -> PageWordLen + 1 + NumDigits(t.n)
      [] t.k = "acode" -> AddrCodeLen
      [] t.k = "born" -> BornLen
      [] t.k = "legal" -> LegalLen
      [] t.k = "doc" -> DocLabelLen
      [] t.k = "bal" -> BalanceLen
      [] t.k = "nl" -> 0
      [] t.k = "date" -> DateLen
      [] t.k = "kw" -> KeywordLineLen
      [] t.k = "docno" -> NumDigits(t.n)
      [] t.k = "lower" -> LowerLineLen
      [] t.k = "punct" -> PunctLineLen
      [] OTHER -> t.w

\* the phrase is wholly present / the blank after it is present too
PhraseWhole(t) == t.w >= PhraseLen(t)
BlankAfter(t) == t.w >= PhraseLen(t) + 1

\* ------------------------------------------------------ offsets and slices
RECURSIVE TextLen(_)
TextLen(text) == IF text = <<>> THEN 0 ELSE Head(text).w + TextLen(Tail(text))

\* 0-based character offset of token i of text
Offset(text, i) == TextLen(SubSeq(text, 1, i - 1))

\* text[s:e] for s the offset of a token: the tokens that start before e,
\* the last one cut at e
Slice(text, s, e) ==
    LET inside == {i \in 1..Len(text) : Offset(text, i) >= s /\ Offset(text, i) < e}
        cut(i) == [text[i] EXCEPT !.w = Min(text[i].w, e - Offset(text, i))]
    IN  IF inside = {} THEN <<>>
        ELSE LET lo == CHOOSE i \in inside : \A j \in inside : i <= j
                 hi == CHOOSE i \in inside : \A j \in inside : i >= j
             IN  [i \in 1..(hi - lo + 1) |-> cut(lo + i - 1)]

\* ------------------------------------------------- MDParser.parse_md_content
\* re.finditer(code_pattern, content): the anchor tokens, left to right
CodeMatches(text) ==
    SelectSeq([i \in 1..Len(text) |-> i], LAMBDA i : text[i].k = "anchor")

\* re.search(anchor, content[from:]): start of the first anchor at or after
\* offset from, relative to from
NextCodeMatch(text, from) ==
    LET found == {i \in 1..Len(text) : text[i].k = "anchor" /\ Offset(text, i) >= from}
    IN  IF found = {} THEN None
        ELSE LET first == CHOOSE i \in found : \A j \in found : i <= j
             IN  Some(Offset(text, first) - from)

\* the chunk end computed without adding the skipped 50 characters back
ChunkOf_EndNotShifted(text, start_pos) ==
    LET next_code_match == NextCodeMatch(text, start_pos + SkipOffset)
    IN  IF IsSet(next_code_match)
        THEN Slice(text, start_pos, start_pos + next_code_match.v)
        ELSE Slice(text, start_pos, start_pos + TailCap)

\* the search for the next anchor started one character after start_pos
ChunkOf_SkipOne(text, start_pos) ==
    LET next_code_match == NextCodeMatch(text, start_pos + 1)
    IN  IF IsSet(next_code_match)
        THEN Slice(text, start_pos, start_pos + 1 + next_code_match.v)
        ELSE Slice(text, start_pos, start_pos + TailCap)

\* the chunk of the anchor at start_pos
ChunkOf(text, start_pos) ==
    LET next_code_match == NextCodeMatch(text, start_pos + SkipOffset)
    IN  IF IsSet(next_code_match)
        THEN LET chunk_end == start_pos + SkipOffset + next_code_match.v
             IN  Slice(text, start_pos, chunk_end)
        ELSE Slice(text, start_pos, start_pos + TailCap)

\* digits of a quantity token that a slice left in place, and their value
QtyDigits(t) == Min(NumDigits(t.n), t.w - (QtyLabelLen + 1))
QtyValue(t) == FirstDigits(t.n, QtyDigits(t))
NumValue(t) == FirstDigits(t.n, Min(NumDigits(t.n), t.w))

\* positions where the split pattern matches: label, number, page break
\* with its page number, second number, each separated by blanks only
SplitMatches(chunk) ==
    {i \in 1..(Len(chunk) - 2) :
        /\ chunk[i].k = "qty" /\ BlankAfter(chunk[i])
        /\ chunk[i + 1].k = "brk" /\ BlankAfter(chunk[i + 1])
        /\ chunk[i + 2].k = "num"}

\* qty_split_match: group(1) of the leftmost match
QtySplitMatch(chunk) ==
    LET ms == SplitMatches(chunk)
    IN  IF ms = {} THEN None
        ELSE LET m == CHOOSE i \in ms : \A j \in ms : i <= j
             IN  Some(NumValue(chunk[m + 2]))

\* qty_matches: the occurrences of the label followed by a number
QtyMatches(chunk) ==
    SelectSeq([i \in 1..Len(chunk) |-> i],
              LAMBDA i : chunk[i].k = "qty" /\ QtyDigits(chunk[i]) >= 1)

\* the context window one character short at its left end
EncumberedBefore_WindowShort(chunk, start) ==
    LET lo == Max(0, start - ContextLen)
    IN  \E j \in 1..Len(chunk) :
            /\ chunk[j].k = "enc"
            /\ Offset(chunk, j) > lo
            /\ Offset(chunk, j) + EncumberedLen <= start

\* 'encumbered' in chunk[max(0, start - 100):start]
EncumberedBefore(chunk, start) ==
    LET lo == Max(0, start - ContextLen)
    IN  \E j \in 1..Len(chunk) :
            /\ chunk[j].k = "enc"
            /\ Offset(chunk, j) >= lo
            /\ Offset(chunk, j) + EncumberedLen <= start

\* a rejected first occurrence falls back to the next occurrence
SingleQuantity_Fallback(chunk) ==
    LET qty_matches == QtyMatches(chunk)
        ok == {m \in 1..Len(qty_matches) :
                  /\ ~EncumberedBefore(chunk, Offset(chunk, qty_matches[m]))
                  /\ QtyValue(chunk[qty_matches[m]]) # Sentinel}
    IN  IF ok = {} THEN None
        ELSE LET m == CHOOSE i \in ok : \A j \in ok : i <= j
             IN  Some(QtyValue(chunk[qty_matches[m]]))

\* the else branch without the test of the sentinel
SingleQuantity_NoSentinel(chunk) ==
    LET qty_matches == QtyMatches(chunk)
    IN  IF qty_matches = <<>> THEN None
        ELSE LET first_match == qty_matches[1]
                 start == Offset(chunk, first_match)
                 qty_value == QtyValue(chunk[first_match])
             IN  IF ~EncumberedBefore(chunk, start)
                 THEN Some(qty_value)
                 ELSE None

\* the else branch: decided from qty_matches[0] alone
SingleQuantity(chunk) ==
    LET qty_matches == QtyMatches(chunk)
    IN  IF qty_matches = <<>> THEN None
        ELSE LET first_match == qty_matches[1]
                 start == Offset(chunk, first_match)
                 qty_value == QtyValue(chunk[first_match])
             IN  IF ~EncumberedBefore(chunk, start) /\ qty_value # Sentinel
                 THEN Some(qty_value)
                 ELSE None

\* the plain pattern tried before the split pattern
ExtractQuantity_PlainFirst(chunk) ==
    LET single == SingleQuantity(chunk)
    IN  IF IsSet(single) THEN single ELSE QtySplitMatch(chunk)

ExtractQuantity(chunk) ==
    LET qty_split_match == QtySplitMatch(chunk)
    IN  IF IsSet(qty_split_match) THEN qty_split_match ELSE SingleQuantity(chunk)

\* ' '.join(s.split()) on tokens: the newlines go, every phrase keeps one
\* blank after it
Collapse(toks) == SelectSeq(toks, LAMBDA t : t.k # "nl")

\* one of the three labels of the lookahead of the address pattern
IsTerminator(t) == t.k \in {"term", "born", "legal"} /\ PhraseWhole(t)

\* tokens that '.+?' has to take before the lookahead is tried: the
\* address start with a word after the code holds that character already,
\* a bare code followed by its blank does not
MustTake(t) == IF t.k = "acode" THEN 1 ELSE 0

\* addr_match: leftmost address start that has a terminator after it which
\* the lookahead can reach; the value is the text from the 2-letter code up
\* to that terminator, stripped and collapsed
ExtractAddress(chunk) ==
    LET starts == {i \in 1..Len(chunk) :
                      chunk[i].k \in {"addr", "acode"} /\ BlankAfter(chunk[i])}
    IN  IF starts = {} THEN None
        ELSE LET s == CHOOSE i \in starts : \A j \in starts : i <= j
                 ends == {j \in (s + 1 + MustTake(chunk[s]))..Len(chunk) :
                             IsTerminator(chunk[j])}
             IN  IF ends = {} THEN None
                 ELSE LET e == CHOOSE i \in ends : \A j \in ends : i <= j
                      IN  Some(Collapse(SubSeq(chunk, s, e - 1)))

\* len() of a stripped, collapsed string: no blank after the last phrase
ValueLen(toks) == IF toks = <<>> THEN 0 ELSE TextLen(toks) - 1

\* length of the run of digits that ends the phrase of t
DigitRun(t) ==
    CASE t.k \in {"qty", "brk", "num", "pg", "docno"} -> NumDigits(t.n)
      [] t.k = "anchor" -> NumDigits(t.c[2])
      [] t.k = "date" -> 4
      [] OTHER -> 0

\* what a capture keeps of token t when it ends where t's last digits
\* begin, stripped: nothing of a number, the label of the others
Residue(t) ==
    LET kept == PhraseLen(t) - DigitRun(t)
                  - (IF t.k \in {"qty", "brk", "pg"} THEN 1 ELSE 0)
    IN  IF kept <= 0 THEN <<>> ELSE <<[t EXCEPT !.w = kept + 1]>>

\* a whole '## <page word> N' marker inside token t
HasMarker(t) == t.k = "brk" /\ t.w >= PageBreakLabelLen + 2

\* the lookahead of the fio pattern succeeds at token j: the postal address
\* label, or digits followed by '---'
PostalAt(t, j) == t[j].k = "padr" /\ PhraseWhole(t[j])
DigitsDashAt(t, j) ==
    /\ DigitRun(t[j]) > 0 /\ PhraseWhole(t[j])
    /\ j + 1 <= Len(t) /\ t[j + 1].k \in {"brk", "punct"} /\ t[j + 1].w >= 3

\* fio_match.group(1).strip(): the tokens after the leftmost name label up
\* to the nearest place where the lookahead succeeds
FioMatch(chunk) ==
    LET t == Collapse(chunk)
        labels == {i \in 1..Len(t) : t[i].k = "name" /\ BlankAfter(t[i])}
    IN  IF labels = {} THEN None
        ELSE LET i == CHOOSE a \in labels : \A b \in labels : a <= b
                 stops == {j \in (i + 1)..Len(t) : PostalAt(t, j) \/ DigitsDashAt(t, j)}
             IN  IF stops = {} THEN None
                 ELSE LET j == CHOOSE a \in stops : \A b \in stops : a <= b
                      IN  Some(SubSeq(t, i + 1, j - 1)
                               \o (IF PostalAt(t, j) THEN <<>> ELSE Residue(t[j])))

\* re.sub of the page marker, one pass from the left: a page break keeps
\* its '---', '##' followed by the page word and a number goes
RECURSIVE RemoveMarkers(_)
RemoveMarkers(toks) ==
    IF toks = <<>> THEN <<>>
    ELSE IF HasMarker(Head(toks))
         THEN <<[Head(toks) EXCEPT !.w = 4]>> \o RemoveMarkers(Tail(toks))
    ELSE IF /\ Head(toks).k = "hash" /\ Len(toks) >= 2
            /\ toks[2].k = "pg" /\ toks[2].w >= PageWordLen + 2
         THEN RemoveMarkers(Tail(Tail(toks)))
    ELSE <<Head(toks)>> \o RemoveMarkers(Tail(toks))

\* the capture with markers removed and whitespace collapsed
FioCollapsed(chunk) ==
    LET fio_match == FioMatch(chunk)
    IN  IF IsSet(fio_match) THEN Some(RemoveMarkers(fio_match.v)) ELSE None

\* a stored name: its tokens and whether '...' follows them
NameLen(v) == IF v.dots THEN TextLen(v.toks) + EllipsisLen ELSE ValueLen(v.toks)

\* the cap keeping 200 characters before the '...'
CapName_Keep200(fio) ==
    IF ValueLen(fio) > NameCap
    THEN [toks |-> Slice(fio, 0, NameCap), dots |-> TRUE]
    ELSE [toks |-> fio, dots |-> FALSE]

\* if len(fio) > 200: fio = fio[:197] + '...'
CapName(fio) ==
    IF ValueLen(fio) > NameCap
    THEN [toks |-> Slice(fio, 0, NameKeep), dots |-> TRUE]
    ELSE [toks |-> fio, dots |-> FALSE]

ExtractFio(chunk) ==
    LET fio == FioCollapsed(chunk)
    IN  IF IsSet(fio) THEN Some(CapName(fio.v)) ELSE None

\* doc_section_match.group(1): the tokens between the leftmost document
\* label and the nearest closing label after it
DocSectionMatch(chunk) ==
    LET opens == {i \in 1..Len(chunk) : chunk[i].k = "doc" /\ PhraseWhole(chunk[i])}
    IN  IF opens = {} THEN None
        ELSE LET i == CHOOSE a \in opens : \A b \in opens : a <= b
                 closes == {j \in (i + 1)..Len(chunk) :
                               chunk[j].k = "bal" /\ PhraseWhole(chunk[j])}
             IN  IF closes = {} THEN None
                 ELSE LET j == CHOOSE a \in closes : \A b \in closes : a <= b
                      IN  Some(SubSeq(chunk, i + 1, j - 1))

\* the character after the token is a newline
EndsLine(t) == t.k \in {"date", "kw", "docno", "lower", "punct", "nl"}

\* lines: the section split at the newlines, each line stripped, the empty
\* ones left out
Lines(doc_section) ==
    LET ends == {e \in 1..Len(doc_section) :
                    EndsLine(doc_section[e]) \/ e = Len(doc_section)}
        before(e) == {x \in ends : x < e}
        first(e) == IF before(e) = {} THEN 1
                    ELSE 1 + (CHOOSE x \in before(e) : \A y \in before(e) : y <= x)
        line(e) == Collapse(SubSeq(doc_section, first(e), e))
        order == SelectSeq([e \in 1..Len(doc_section) |-> e],
                           LAMBDA e : e \in ends /\ line(e) # <<>>)
    IN  [m \in 1..Len(order) |-> line(order[m])]

\* re.match of the date pattern at the start of the line
IsDateLine(line) == Head(line).k = "date" /\ PhraseWhole(Head(line))

\* any(kw in line for kw in exclude_keywords): the document type line and
\* the address terminator hold one of the keywords
HasKeywords(line) == \E m \in 1..Len(line) : line[m].k \in {"kw", "term"}

\* re.search(r'[\dА-ЯA-Za-z]', line): a digit, an upper-case Cyrillic or a
\* Latin letter; filler text is Latin
HasContent(line) ==
    \E m \in 1..Len(line) : line[m].k \notin {"lower", "punct", "hash"}

\* not has_keywords and has_content and len(line) >= 3
Qualifies(line) ==
    ~HasKeywords(line) /\ HasContent(line) /\ ValueLen(line) >= MinDocLen

\* document_number: the nearest qualifying line above the first date line
ExtractDocumentNumber(chunk) ==
    LET doc_section_match == DocSectionMatch(chunk)
    IN  IF ~IsSet(doc_section_match) THEN None
        ELSE LET lines == Lines(doc_section_match.v)
                 date_indices == {m \in 1..Len(lines) : IsDateLine(lines[m])}
             IN  IF date_indices = {} THEN None
                 ELSE LET first_date_idx ==
                              CHOOSE a \in date_indices : \A b \in date_indices : a <= b
                          found == {m \in 1..(first_date_idx - 1) : Qualifies(lines[m])}
                      IN  IF found = {} THEN None
                          ELSE Some(lines[CHOOSE a \in found : \A b \in found : b <= a])

\* Python truth of an optional string / an optional int
TruthyStr(o) == IsSet(o) /\ o.v # <<>>
TruthyInt(o) == IsSet(o) /\ o.v # 0

\* OwnerRecord.validate
validate(record) == IsSet(record.address) /\ IsSet(record.quantity)

OwnerRecord(owner_code, fio, address, quantity, document_number) ==
    [owner_code |-> owner_code, full_name |-> fio, address |-> address,
     quantity |-> quantity, document_number |-> document_number]

\* the gate testing the two fields against None
Emits_NotNone(record) ==
    /\ IsSet(record.address) /\ IsSet(record.quantity)
    /\ validate(record)

\* the gate with the quantity test forgotten
Emits_AddressOnly(record) == TruthyStr(record.address)

\* the emission gate: if address and quantity: ... if record.validate()
Emits(record) ==
    /\ TruthyStr(record.address) /\ TruthyInt(record.quantity)
    /\ validate(record)

\* the new record put in front of the list
append_Front(list, record) == <<record>> \o list

\* records.append(record)
append(list, record) == Append(list, record)

\* ------------------------------------------------------- ValidationReport
ValidationReport ==
    [total_records |-> 0, valid_records |-> 0, invalid_records |-> 0,
     missing_address |-> 0, missing_quantity |-> 0, total_quantity |-> 0]

\* add_record without the count of invalid records
add_record_NoInvalid(rep, record) ==
    [total_records |-> rep.total_records + 1,
     valid_records |-> rep.valid_records + (IF validate(record) THEN 1 ELSE 0),
     invalid_records |-> rep.invalid_records,
     missing_address |-> rep.missing_address + (IF IsSet(record.address) THEN 0 ELSE 1),
     missing_quantity |-> rep.missing_quantity + (IF IsSet(record.quantity) THEN 0 ELSE 1),
     total_quantity |-> rep.total_quantity
                          + (IF IsSet(record.quantity) THEN record.quantity.v ELSE 0)]

\* ValidationReport.add_record
add_record(rep, record) ==
    [total_records |-> rep.total_records + 1,
     valid_records |-> rep.valid_records + (IF validate(record) THEN 1 ELSE 0),
     invalid_records |-> rep.invalid_records + (IF validate(record) THEN 0 ELSE 1),
     missing_address |-> rep.missing_address + (IF IsSet(record.address) THEN 0 ELSE 1),
     missing_quantity |-> rep.missing_quantity + (IF IsSet(record.quantity) THEN 0 ELSE 1),
     total_quantity |-> rep.total_quantity
                          + (IF IsSet(record.quantity) THEN record.quantity.v ELSE 0)]

\* ------------------------------------------------------------ XLSXExporter
\* row 1 of the owners sheet
headers == <<"address", "quantity", "owner_code", "full_name",
             "document_number", "account", "page">>
HeaderRow == [cells |-> headers, flagged |-> FALSE]

\* OwnerRecord.to_dict, in column order; no field supplies account and page
to_dict(record) ==
    <<record.address, record.quantity, Some(record.owner_code),
      record.full_name, record.document_number, None, None>>

\* the fill decided by the address alone
DataRow_AddressOnly(record) == [cells |-> to_dict(record), flagged |-> ~IsSet(record.address)]

\* one data row: the seven cells, and the fill of columns 1..2
DataRow(record) == [cells |-> to_dict(record), flagged |-> ~validate(record)]

\* ------------------------------------------------------- _add_stats_sheet
\* quality left as a share, the factor 100 forgotten
Quality_Share(rep) ==
    IF rep.total_records > 0
    THEN [num |-> rep.valid_records, den |-> rep.total_records]
    ELSE [num |-> 0, den |-> 1]

\* quality = valid_records / total_records * 100 if total_records > 0 else 0,
\* kept as the fraction num / den
Quality(rep) ==
    IF rep.total_records > 0
    THEN [num |-> rep.valid_records * 100, den |-> rep.total_records]
    ELSE [num |-> 0, den |-> 1]

\* f"{quality:.1f}": the nearest number of tenths, a tie going to the even one
QualityTenths(q) ==
    LET fl == (q.num * 10) \div q.den
        rem2 == 2 * ((q.num * 10) % q.den)
    IN  IF rem2 > q.den \/ (rem2 = q.den /\ fl % 2 = 1) THEN fl + 1 ELSE fl

\* the font colour of the quality cell
QualityColor(q) == IF q.num >= 95 * q.den THEN "008000" ELSE "FF0000"

\* the statistics sheet: the six counters in row order, then the quality
StatsSheet(rep) ==
    [counters |-> <<rep.total_records, rep.valid_records, rep.invalid_records,
                    rep.total_quantity, rep.missing_address, rep.missing_quantity>>,
     quality |-> Quality(rep),
     text |-> QualityTenths(Quality(rep)),
     color |-> QualityColor(Quality(rep))]

\* ------------------------------------------------------------------ state
VARIABLES content,      \* the text handed to parse_md_content
          pc,           \* where the running operation stands ("parse", "rows",
                        \* "request", "startup", "page", ...)
          idx,          \* position in CodeMatches(content) of the next anchor
          owner_code, chunk, address, quantity,  \* locals of the last iteration
          records,      \* the list being returned / handed to export
          report,       \* the ValidationReport of the running export
          ws,           \* rows of the owners sheet, ws[1] the header
          row_idx,      \* enumerate(records, 2)
          sheets,       \* titles of the workbook's sheets
          saved,        \* wb.save happened
          full_name, document_number,  \* fio and document_number of the last iteration
          calls,        \* what parse_md_content returned so far: text and list
          stats,        \* the statistics sheet
          dir,          \* the parent directory of output_path
          file,         \* the file at md_path given to parse_md_file
          reads,        \* times parse_md_file opened the file
          error,        \* the exception that reached the caller
          saves,        \* calls of wb.save in the running export
          returns,      \* what export returned so far: records and report
          max_retries,  \* OCRClient.max_retries
          attempt,      \* the loop variable of _make_request
          last_error,   \* last_error of _make_request
          posts,        \* outcomes of the POSTs _make_request has made
          response,     \* what _make_request returned
          message,      \* what the RuntimeError of _make_request carries
          VLLM_AVAILABLE,  \* the import of vllm succeeded
          loadable,     \* model paths LLM(model=...) can load
          ocr_engine,   \* the global engine of the OCR service
          loads,        \* calls of _load_model: model path and outcome
          answers,      \* requests answered so far: endpoint and status
          pipeline_stats,  \* PDFToContextPipeline._stats
          pdf_pages,    \* parser.get_total_pages() of the open document
          page_num,     \* the loop variable of process
          extracted_data,  \* the list process fills
          built,        \* what build_ir was given by the running call
          docs          \* calls of process on this pipeline so far

vars == <<content, pc, idx, owner_code, chunk, address, quantity, records,
          report, ws, row_idx, sheets, saved, full_name, document_number,
          calls, stats, dir, file, reads, error, saves, returns,
          max_retries, attempt, last_error, posts, response, message,
          VLLM_AVAILABLE, loadable, ocr_engine, loads, answers,
          pipeline_stats, pdf_pages, page_num, extracted_data, built, docs>>

parseVars == <<idx, owner_code, chunk, address, quantity, full_name, document_number>>
exportVars == <<report, ws, row_idx, sheets, saved, stats, dir, saves, returns>>
fileVars == <<file, reads>>
ocrVars == <<max_retries, attempt, last_error, posts, response, message>>
svcVars == <<VLLM_AVAILABLE, loadable, ocr_engine, loads, answers>>
pipeVars == <<pipeline_stats, pdf_pages, page_num, extracted_data, built, docs>>
sideVars == <<ocrVars, svcVars, pipeVars>>

\* ----------------------------------------------------------------- inputs
Codes == {<<1, 1>>, <<2, 2>>}

\* single-chunk texts: one anchor and up to MaxBody blocks after it
BodyBlocks ==
    {<<Qty(7)>>, <<Qty(Sentinel)>>, <<PageBreak(5)>>, <<Num(9)>>, <<Encumbered>>,
     <<Fill(82)>>, <<Fill(83)>>, <<Fill(2950)>>, <<AddrStart, Terminator>>}

\* multi-chunk texts: up to MaxBlocks blocks
SegBlocks ==
    {<<Anchor(<<1, 1>>)>>, <<Anchor(<<2, 2>>)>>, <<AddrStart, Terminator, Qty(7)>>,
     <<AddrStart, Terminator>>, <<Fill(23)>>, <<Fill(2950)>>}

RECURSIVE Flatten(_)
Flatten(blocks) == IF blocks = <<>> THEN <<>> ELSE Head(blocks) \o Flatten(Tail(blocks))

SingleChunkText(b) == <<Anchor(<<1, 1>>)>> \o Flatten(b)
MultiChunkText(b) == Flatten(b)

\* texts for the name: the anchor, the name label and up to MaxName blocks
NameBlocks ==
    {<<Fill(150)>>, <<Fill(51)>>, <<Fill(52)>>, <<PostalAddr>>, <<PageBreak(5)>>,
     <<Num(9)>>, <<Hash>>, <<Hash, Page(5)>>, <<Page(7)>>, <<Qty(7)>>}
NameText(b) == <<Anchor(<<1, 1>>), NameLabel>> \o Flatten(b)

\* texts for the address and for the fields side by side: the anchor and
\* up to MaxAddr blocks
AddrBlocks ==
    {<<AddrStart>>, <<AddrCode>>, <<Terminator>>, <<Born>>, <<Legal>>, <<Newline>>,
     <<PageBreak(5)>>, <<Fill(6)>>, <<Qty(7)>>, <<Qty(0)>>,
     <<NameLabel, Fill(6), PostalAddr>>,
     <<DocLabel, DocNo(4510), DateLine, Balance>>}
AddrText(b) == <<Anchor(<<1, 1>>)>> \o Flatten(b)

\* texts for the document number: the anchor, the opening label, up to
\* MaxLines lines, and the closing label or not
DocLineSet == {DateLine, KeywordLine, DocNo(4510), DocNo(12), LowerLine, PunctLine}
DocText(l, closed) ==
    <<Anchor(<<1, 1>>), DocLabel>> \o l \o (IF closed THEN <<Balance>> ELSE <<>>)

\* texts for the quantity: the anchor and up to MaxQty blocks, with zeros,
\* the sentinel and the qualifier on either path
QtyBlocks ==
    {<<Qty(0)>>, <<Qty(7)>>, <<Qty(Sentinel)>>, <<Qty(412), PageBreak(5)>>,
     <<Num(0)>>, <<Num(9)>>, <<Num(Sentinel)>>, <<Encumbered>>,
     <<AddrStart, Terminator>>}
QtyText(b) == <<Anchor(<<1, 1>>)>> \o Flatten(b)

\* records another source may hand to export
RecordInputs ==
    {OwnerRecord(c, f, a, q, None) :
        c \in {<<1, 1>>}, f \in {None, Some(<<"name">>)},
        a \in {None, Some(<<AddrStart>>)}, q \in {None, Some(5), Some(7)}}

\* record lists handed to export by the calls of a series
RepeatRecords ==
    {<<>>,
     <<OwnerRecord(<<1, 1>>, None, Some(<<AddrStart>>), Some(7), None)>>,
     <<OwnerRecord(<<1, 1>>, None, Some(<<AddrStart>>), Some(7), None),
       OwnerRecord(<<2, 2>>, None, None, Some(5), None)>>,
     <<OwnerRecord(<<2, 2>>, None, Some(<<AddrStart>>), None, None),
       OwnerRecord(<<1, 1>>, None, Some(<<AddrStart>>), Some(5), None),
       OwnerRecord(<<1, 1>>, None, None, None, None)>>}

\* ------------------------------------------------------------------- Init
InitLocals ==
    /\ idx = 1 /\ owner_code = NoCode /\ chunk = <<>>
    /\ address = None /\ quantity = None
    /\ full_name = None /\ document_number = None
InitExportVars ==
    /\ report = None /\ ws = <<>> /\ row_idx = 0 /\ sheets = <<>> /\ saved = FALSE
    /\ stats = None /\ dir = None
    /\ saves = 0 /\ returns = <<>>
InitNoFile ==
    /\ file = None /\ reads = 0 /\ error = None /\ calls = <<>>

\* no request of the OCR client is running
InitOcrIdle ==
    /\ max_retries = 0 /\ attempt = 0 /\ last_error = None
    /\ posts = <<>> /\ response = None /\ message = None
\* the OCR service is not started
InitSvcIdle ==
    /\ VLLM_AVAILABLE = FALSE /\ loadable = {} /\ ocr_engine = None
    /\ loads = <<>> /\ answers = <<>>
\* PDFToContextPipeline.__init__: the statistics start at zero
InitStats ==
    [total_pages |-> 0, native_pages |-> 0, ocr_pages |-> 0, hybrid_pages |-> 0,
     errors |-> <<>>]
InitPipeIdle ==
    /\ pipeline_stats = InitStats /\ pdf_pages = 0 /\ page_num = 0
    /\ extracted_data = <<>> /\ built = None /\ docs = 0
InitSide == InitOcrIdle /\ InitSvcIdle /\ InitPipeIdle
\* nothing of the finance parser is running
InitIdle ==
    /\ content = <<>> /\ records = <<>>
    /\ InitLocals /\ InitExportVars /\ InitNoFile

\* parse_md_content is called on a text; records = []
Init ==
    /\ \/ \E n \in 0..MaxBody : \E b \in [1..n -> BodyBlocks] :
                content = SingleChunkText(b)
       \/ \E n \in 0..MaxBlocks : \E b \in [1..n -> SegBlocks] :
                content = MultiChunkText(b)
    /\ pc = "parse"
    /\ records = <<>>
    /\ InitSide /\ InitLocals /\ InitExportVars /\ InitNoFile

\* export is called on records of any source
InitExport ==
    /\ content = <<>>
    /\ pc = "parsed"
    /\ \E n \in 0..MaxRecords : \E rs \in [1..n -> RecordInputs] : records = rs
    /\ InitSide /\ InitLocals /\ InitExportVars /\ InitNoFile

\* texts parsed one after another by the same MDParser
RepeatTexts ==
    {<<>>,
     <<Anchor(<<1, 1>>), AddrStart, Terminator, Qty(7)>>,
     <<Anchor(<<2, 2>>), AddrStart, Terminator, Qty(7), Fill(23),
       Anchor(<<1, 1>>), AddrStart, Terminator, Qty(Sentinel), Qty(7)>>,
     <<Anchor(<<1, 1>>), Anchor(<<2, 2>>), AddrStart, Terminator, Qty(7)>>}

\* export is called for the first time of a series
InitExportRepeat ==
    /\ content = <<>>
    /\ pc = "parsed"
    /\ records \in RepeatRecords
    /\ InitSide /\ InitLocals /\ InitExportVars /\ InitNoFile

\* parse_md_content is called on a first text of a series
InitRepeat ==
    /\ content \in RepeatTexts
    /\ pc = "parse"
    /\ records = <<>>
    /\ InitSide /\ InitLocals /\ InitExportVars /\ InitNoFile

\* reports _add_stats_sheet may be given: every split of total_records into
\* valid records and records without an address
InitQuality ==
    /\ content = <<>>
    /\ pc = "stats"
    /\ records = <<>>
    /\ \E total \in 0..MaxTotal : \E valid \in 0..total :
          report = Some([total_records |-> total, valid_records |-> valid,
                         invalid_records |-> total - valid,
                         missing_address |-> total - valid, missing_quantity |-> 0,
                         total_quantity |-> 5 * total])
    /\ ws = <<HeaderRow>> /\ row_idx = 2 /\ sheets = <<"Owners">> /\ saved = FALSE
    /\ stats = None /\ dir = None
    /\ saves = 0 /\ returns = <<>>
    /\ InitSide /\ InitLocals /\ InitNoFile

\* parse_md_file is called on a path; the file is there with a text, is
\* missing, or cannot be read
InitFile ==
    /\ content = <<>>
    /\ pc = "open"
    /\ records = <<>>
    /\ \E status \in {"ok", "missing", "unreadable"} :
       \E n \in 0..MaxFileBlocks : \E b \in [1..n -> SegBlocks] :
          file = Some([status |-> status, text |-> MultiChunkText(b)])
    /\ reads = 0 /\ error = None /\ calls = <<>>
    /\ InitSide /\ InitLocals /\ InitExportVars

\* parse_md_content on a text of one of the three field families
InitFields ==
    /\ pc = "parse"
    /\ \/ \E n \in 0..MaxName : \E b \in [1..n -> NameBlocks] : content = NameText(b)
       \/ \E n \in 0..MaxAddr : \E b \in [1..n -> AddrBlocks] : content = AddrText(b)
       \/ \E n \in 0..MaxLines : \E l \in [1..n -> DocLineSet] :
             \E closed \in BOOLEAN : content = DocText(l, closed)
    /\ records = <<>>
    /\ InitSide /\ InitLocals
    /\ InitExportVars
    /\ InitNoFile

\* parse_md_content on a text of the quantity family
InitQty ==
    /\ pc = "parse"
    /\ \E n \in 0..MaxQty : \E b \in [1..n -> QtyBlocks] : content = QtyText(b)
    /\ records = <<>>
    /\ InitSide /\ InitLocals /\ InitExportVars /\ InitNoFile

\* OCRClient(max_retries = m)._make_request is called
InitOcr ==
    /\ pc = "request"
    /\ max_retries \in 0..MaxRetries
    /\ attempt = 0 /\ last_error = None
    /\ posts = <<>> /\ response = None /\ message = None
    /\ InitIdle /\ InitSvcIdle /\ InitPipeIdle

\* the model paths the service asks LLM for
ModelPath == "deepseek-ai/deepseek-ocr"
StubPath == "stub"

\* the OCR service starts: vllm is installed or not, and LLM can load some
\* of the paths it may be asked for
InitService ==
    /\ pc = "startup"
    /\ VLLM_AVAILABLE \in BOOLEAN
    /\ loadable \in SUBSET {ModelPath, StubPath}
    /\ ocr_engine = None /\ loads = <<>> /\ answers = <<>>
    /\ InitIdle /\ InitOcrIdle /\ InitPipeIdle

\* a PDFToContextPipeline has been constructed; process is not running
InitPipeline ==
    /\ pc = "idle"
    /\ InitPipeIdle
    /\ InitIdle /\ InitOcrIdle /\ InitSvcIdle

\* ---------------------------------------------------------------- actions
\* parse_md_file with a failed read answered by an empty list
ParseMdFile_EmptyOnError ==
    /\ pc = "open"
    /\ reads' = reads + 1
    /\ IF file.v.status = "ok"
       THEN /\ content' = file.v.text
            /\ pc' = "parse"
            /\ UNCHANGED <<error, calls>>
       ELSE /\ pc' = "parsed"
            /\ calls' = Append(calls, [text |-> content, result |-> <<>>])
            /\ UNCHANGED <<content, error>>
    /\ UNCHANGED <<records, file>>
    /\ UNCHANGED parseVars
    /\ UNCHANGED exportVars
    /\ UNCHANGED sideVars

\* parse_md_file: open and read the file, then parse_md_content(content);
\* open or read raising leaves the function at once
ParseMdFile ==
    /\ pc = "open"
    /\ reads' = reads + 1
    /\ IF file.v.status = "ok"
       THEN /\ content' = file.v.text
            /\ pc' = "parse"
            /\ UNCHANGED error
       ELSE /\ error' = Some(IF file.v.status = "missing"
                             THEN "FileNotFoundError" ELSE "OSError")
            /\ pc' = "raised"
            /\ UNCHANGED content
    /\ UNCHANGED <<records, file, calls>>
    /\ UNCHANGED parseVars
    /\ UNCHANGED exportVars
    /\ UNCHANGED sideVars

\* the next call with the list of the call before left in place
ParseCall_RecordsKept ==
    /\ pc = "parsed"
    /\ Len(calls) < MaxCalls
    /\ content' \in RepeatTexts
    /\ pc' = "parse"
    /\ idx' = 1 /\ owner_code' = NoCode /\ chunk' = <<>>
    /\ address' = None /\ quantity' = None
    /\ full_name' = None /\ document_number' = None
    /\ UNCHANGED <<records, calls, error>>
    /\ UNCHANGED exportVars
    /\ UNCHANGED fileVars
    /\ UNCHANGED sideVars

\* a further call of parse_md_content on the same MDParser: records = []
ParseCall ==
    /\ pc = "parsed"
    /\ Len(calls) < MaxCalls
    /\ content' \in RepeatTexts
    /\ pc' = "parse"
    /\ records' = <<>>
    /\ idx' = 1 /\ owner_code' = NoCode /\ chunk' = <<>>
    /\ address' = None /\ quantity' = None
    /\ full_name' = None /\ document_number' = None
    /\ UNCHANGED <<calls, error>>
    /\ UNCHANGED exportVars
    /\ UNCHANGED fileVars
    /\ UNCHANGED sideVars

\* _add_stats_sheet(wb, report) on its own
AddStatsSheet ==
    /\ pc = "stats"
    /\ sheets' = Append(sheets, "Statistics")
    /\ stats' = Some(StatsSheet(report.v))
    /\ pc' = "stats_done"
    /\ UNCHANGED <<content, records, report, ws, row_idx, saved, dir, calls, error,
                   saves, returns>>
    /\ UNCHANGED parseVars
    /\ UNCHANGED fileVars
    /\ UNCHANGED sideVars

\* one iteration of the for loop over the anchors
ParseAnchor ==
    /\ pc = "parse"
    /\ idx <= Len(CodeMatches(content))
    /\ LET code_match == CodeMatches(content)[idx]
           start_pos == Offset(content, code_match)
           ch == ChunkOf(content, start_pos)
           addr == ExtractAddress(ch)
           qty == ExtractQuantity(ch)
           fio == ExtractFio(ch)
           doc == ExtractDocumentNumber(ch)
           record == OwnerRecord(content[code_match].c, fio, addr, qty, doc)
       IN  /\ owner_code' = content[code_match].c
           /\ chunk' = ch
           /\ address' = addr
           /\ quantity' = qty
           /\ full_name' = fio
           /\ document_number' = doc
           /\ records' = IF Emits(record) THEN append(records, record) ELSE records
    /\ idx' = idx + 1
    /\ UNCHANGED <<content, pc, calls, error>>
    /\ UNCHANGED exportVars
    /\ UNCHANGED fileVars
    /\ UNCHANGED sideVars

\* the loop is exhausted: return records
ParseReturn ==
    /\ pc = "parse"
    /\ idx > Len(CodeMatches(content))
    /\ pc' = "parsed"
    /\ calls' = Append(calls, [text |-> content, result |-> records])
    /\ UNCHANGED <<content, records, error>>
    /\ UNCHANGED parseVars
    /\ UNCHANGED exportVars
    /\ UNCHANGED fileVars
    /\ UNCHANGED sideVars

\* the start of export with the header row counted as a record
ExportBegin_HeaderCounted ==
    /\ pc = "parsed"
    /\ pc' = "rows"
    /\ sheets' = <<"Owners">>
    /\ ws' = <<HeaderRow>>
    /\ report' = Some([ValidationReport EXCEPT !.total_records = 1])
    /\ row_idx' = 2
    /\ saved' = FALSE
    /\ saves' = 0
    /\ UNCHANGED <<content, records, calls, error, stats, dir, returns>>
    /\ UNCHANGED parseVars
    /\ UNCHANGED fileVars
    /\ UNCHANGED sideVars

\* the start of export with the report of the call before kept
ExportBegin_ReportKept ==
    /\ pc = "parsed"
    /\ pc' = "rows"
    /\ sheets' = <<"Owners">>
    /\ ws' = <<HeaderRow>>
    /\ report' = IF returns = <<>> THEN Some(ValidationReport)
                 ELSE Some(returns[Len(returns)].report)
    /\ row_idx' = 2
    /\ saved' = FALSE
    /\ saves' = 0
    /\ UNCHANGED <<content, records, calls, error, stats, dir, returns>>
    /\ UNCHANGED parseVars
    /\ UNCHANGED fileVars
    /\ UNCHANGED sideVars

\* export up to the loop: workbook, header row, report = ValidationReport()
ExportBegin ==
    /\ pc = "parsed"
    /\ pc' = "rows"
    /\ sheets' = <<"Owners">>
    /\ ws' = <<HeaderRow>>
    /\ report' = Some(ValidationReport)
    /\ row_idx' = 2
    /\ saved' = FALSE
    /\ saves' = 0
    /\ UNCHANGED <<content, records, calls, error, stats, dir, returns>>
    /\ UNCHANGED parseVars
    /\ UNCHANGED fileVars
    /\ UNCHANGED sideVars

\* the iteration with add_record reached for valid records only
ExportRow_ReportValidOnly ==
    /\ pc = "rows"
    /\ row_idx - 1 <= Len(records)
    /\ LET record == records[row_idx - 1]
       IN  /\ ws' = [r \in 1..row_idx |-> IF r = row_idx THEN DataRow(record) ELSE ws[r]]
           /\ report' = IF validate(record) THEN Some(add_record(report.v, record))
                                            ELSE report
    /\ row_idx' = row_idx + 1
    /\ UNCHANGED <<content, pc, records, sheets, saved, calls, error, stats, dir,
                   saves, returns>>
    /\ UNCHANGED parseVars
    /\ UNCHANGED fileVars
    /\ UNCHANGED sideVars

\* the iteration with the workbook saved after every row
ExportRow_SaveEachRow ==
    /\ pc = "rows"
    /\ row_idx - 1 <= Len(records)
    /\ LET record == records[row_idx - 1]
       IN  /\ ws' = [r \in 1..row_idx |-> IF r = row_idx THEN DataRow(record) ELSE ws[r]]
           /\ report' = Some(add_record(report.v, record))
    /\ row_idx' = row_idx + 1
    /\ saved' = TRUE
    /\ saves' = saves + 1
    /\ UNCHANGED <<content, pc, records, sheets, calls, error, stats, dir, returns>>
    /\ UNCHANGED parseVars
    /\ UNCHANGED fileVars
    /\ UNCHANGED sideVars

\* the iteration walking the records from the last to the first
ExportRow_Reversed ==
    /\ pc = "rows"
    /\ row_idx - 1 <= Len(records)
    /\ LET record == records[Len(records) - (row_idx - 2)]
       IN  /\ ws' = [r \in 1..row_idx |-> IF r = row_idx THEN DataRow(record) ELSE ws[r]]
           /\ report' = Some(add_record(report.v, record))
    /\ row_idx' = row_idx + 1
    /\ UNCHANGED <<content, pc, records, sheets, saved, calls, error, stats, dir,
                   saves, returns>>
    /\ UNCHANGED parseVars
    /\ UNCHANGED fileVars
    /\ UNCHANGED sideVars

\* one iteration of for row_idx, record in enumerate(records, 2)
ExportRow ==
    /\ pc = "rows"
    /\ row_idx - 1 <= Len(records)
    /\ LET record == records[row_idx - 1]
       IN  /\ ws' = [r \in 1..row_idx |-> IF r = row_idx THEN DataRow(record) ELSE ws[r]]
           /\ report' = Some(add_record(report.v, record))
    /\ row_idx' = row_idx + 1
    /\ UNCHANGED <<content, pc, records, sheets, saved, calls, error, stats, dir,
                   saves, returns>>
    /\ UNCHANGED parseVars
    /\ UNCHANGED fileVars
    /\ UNCHANGED sideVars

\* the end of export without the mkdir: wb.save into a missing directory
\* raises
ExportFinish_NoMkdir ==
    /\ pc = "rows"
    /\ row_idx - 1 > Len(records)
    /\ sheets' = Append(sheets, "Statistics")
    /\ stats' = Some(StatsSheet(report.v))
    /\ \E parent_exists \in BOOLEAN, writable \in BOOLEAN :
          IF writable /\ parent_exists
          THEN /\ dir' = Some([existed |-> parent_exists, writable |-> writable,
                               exists |-> TRUE])
               /\ saved' = TRUE
               /\ saves' = saves + 1
               /\ error' = None
               /\ returns' = Append(returns, [records |-> records, report |-> report.v])
               /\ pc' = "done"
          ELSE /\ dir' = Some([existed |-> parent_exists, writable |-> writable,
                               exists |-> parent_exists])
               /\ saved' = FALSE
               /\ saves' = saves + 1
               /\ error' = Some("OSError")
               /\ UNCHANGED returns
               /\ pc' = "raised"
    /\ UNCHANGED <<content, records, report, ws, row_idx, calls>>
    /\ UNCHANGED parseVars
    /\ UNCHANGED fileVars
    /\ UNCHANGED sideVars

\* _add_stats_sheet, output_path.parent.mkdir(parents=True, exist_ok=True),
\* wb.save, return report; the parent directory exists or not when export
\* gets there, and the file system lets the exporter write or not (then
\* mkdir of a missing directory, or wb.save into an existing one, raises)
ExportFinish ==
    /\ pc = "rows"
    /\ row_idx - 1 > Len(records)
    /\ sheets' = Append(sheets, "Statistics")
    /\ stats' = Some(StatsSheet(report.v))
    /\ \E parent_exists \in BOOLEAN, writable \in BOOLEAN :
          IF writable
          THEN /\ dir' = Some([existed |-> parent_exists, writable |-> writable,
                               exists |-> TRUE])
               /\ saved' = TRUE
               /\ saves' = saves + 1
               /\ error' = None
               /\ returns' = Append(returns, [records |-> records, report |-> report.v])
               /\ pc' = "done"
          ELSE /\ dir' = Some([existed |-> parent_exists, writable |-> writable,
                               exists |-> parent_exists])
               /\ saved' = FALSE
               /\ saves' = IF parent_exists THEN saves + 1 ELSE saves
               /\ error' = Some("OSError")
               /\ UNCHANGED returns
               /\ pc' = "raised"
    /\ UNCHANGED <<content, records, report, ws, row_idx, calls>>
    /\ UNCHANGED parseVars
    /\ UNCHANGED fileVars
    /\ UNCHANGED sideVars

\* a further call of export on the same XLSXExporter, after a call that
\* returned or raised; the exporter keeps only its header styles
ExportCall ==
    /\ pc \in {"done", "raised"}
    /\ Len(returns) < MaxExports
    /\ records' \in RepeatRecords
    /\ pc' = "parsed"
    /\ error' = None
    /\ report' = None /\ ws' = <<>> /\ row_idx' = 0 /\ sheets' = <<>>
    /\ saved' = FALSE /\ stats' = None /\ dir' = None /\ saves' = 0
    /\ UNCHANGED <<content, calls, returns>>
    /\ UNCHANGED parseVars
    /\ UNCHANGED fileVars
    /\ UNCHANGED sideVars

\* ------------------------------------------- OCRClient._make_request
\* what one POST can come to: a status that is no error with a body that
\* parses, such a status with a body that does not parse, a timeout, a
\* connection error, an error status from 500, an error status below 500,
\* any other exception
Outcomes ==
    {"ok", "bad_json", "timeout", "connection", "http_5xx", "http_4xx", "unexpected"}

\* the except clause an outcome lands in sets last_error
LastErrorOf(outcome) ==
    CASE outcome = "timeout" -> "Timeout"
      [] outcome = "connection" -> "Connection error"
      [] outcome = "http_5xx" -> "Server error"
      [] OTHER -> "Unexpected error"

\* one iteration of the loop, a client error answered by another attempt
MakeRequestAttempt_RetryClientError ==
    /\ pc = "request"
    /\ attempt < max_retries
    /\ \E outcome \in Outcomes :
          /\ posts' = Append(posts, outcome)
          /\ IF outcome = "ok"
             THEN /\ response' = Some(Len(posts) + 1)
                  /\ pc' = "returned"
                  /\ UNCHANGED <<attempt, last_error, message, error>>
             ELSE /\ last_error' = Some(LastErrorOf(outcome))
                  /\ attempt' = attempt + 1
                  /\ UNCHANGED <<pc, response, message, error>>
    /\ UNCHANGED <<content, records, calls, max_retries>>
    /\ UNCHANGED <<parseVars, exportVars, fileVars, svcVars, pipeVars>>

\* one iteration of the loop of _make_request: the POST, raise_for_status,
\* response.json() and the except clauses
MakeRequestAttempt ==
    /\ pc = "request"
    /\ attempt < max_retries
    /\ \E outcome \in Outcomes :
          /\ posts' = Append(posts, outcome)
          /\ CASE outcome = "ok" ->
                    /\ response' = Some(Len(posts) + 1)
                    /\ pc' = "returned"
                    /\ UNCHANGED <<attempt, last_error, message, error>>
               [] outcome = "http_4xx" ->
                    /\ error' = Some("RuntimeError")
                    /\ message' = Some([text |-> "OCR request failed",
                                        cause |-> Some("Client error")])
                    /\ pc' = "request_raised"
                    /\ UNCHANGED <<attempt, last_error, response>>
               [] OTHER ->
                    /\ last_error' = Some(LastErrorOf(outcome))
                    /\ attempt' = attempt + 1
                    /\ UNCHANGED <<pc, response, message, error>>
    /\ UNCHANGED <<content, records, calls, max_retries>>
    /\ UNCHANGED <<parseVars, exportVars, fileVars, svcVars, pipeVars>>

\* the loop is over without a return: RuntimeError with the last error
MakeRequestExhausted ==
    /\ pc = "request"
    /\ attempt >= max_retries
    /\ error' = Some("RuntimeError")
    /\ message' = Some([text |-> "OCR request failed after attempts",
                        cause |-> last_error])
    /\ pc' = "request_raised"
    /\ UNCHANGED <<content, records, calls, max_retries, attempt, last_error,
                   posts, response>>
    /\ UNCHANGED <<parseVars, exportVars, fileVars, svcVars, pipeVars>>

\* --------------------------------------------------- the OCR service
\* DeepSeekOCREngine(model_path): llm stays None without vllm; with vllm
\* _load_model sets llm or raises again what LLM raised
NewEngine(model_path) ==
    IF VLLM_AVAILABLE
    THEN [raised |-> model_path \notin loadable,
          engine |-> [model_path |-> model_path, llm |-> TRUE],
          load |-> <<[model_path |-> model_path, ok |-> model_path \in loadable]>>]
    ELSE [raised |-> FALSE,
          engine |-> [model_path |-> model_path, llm |-> FALSE],
          load |-> <<>>]

\* startup_event: the engine of the model, and the engine of "stub" when
\* constructing the first one raised
Startup ==
    /\ pc = "startup"
    /\ LET first == NewEngine(ModelPath)
           second == NewEngine(StubPath)
       IN IF ~first.raised
          THEN /\ ocr_engine' = Some(first.engine)
               /\ loads' = loads \o first.load
               /\ pc' = "serving"
               /\ UNCHANGED error
          ELSE IF ~second.raised
          THEN /\ ocr_engine' = Some(second.engine)
               /\ loads' = loads \o first.load \o second.load
               /\ pc' = "serving"
               /\ UNCHANGED error
          ELSE /\ loads' = loads \o first.load \o second.load
               /\ error' = Some("Exception")
               /\ pc' = "startup_failed"
               /\ UNCHANGED ocr_engine
    /\ UNCHANGED <<content, records, calls, VLLM_AVAILABLE, loadable, answers>>
    /\ UNCHANGED <<parseVars, exportVars, fileVars, ocrVars, pipeVars>>

\* process_image answers from the stub without vllm or without llm
StubMode(engine) == ~VLLM_AVAILABLE \/ ~engine.llm

\* ocr_page and ocr_figure: 503 without an engine, 500 when decoding,
\* opening or inference raises, the OCRResponse otherwise
OcrRequest ==
    /\ pc = "serving"
    /\ Len(answers) < MaxRequests
    /\ \E endpoint \in {"/ocr/page", "/ocr/figure"} :
       \E image_ok \in BOOLEAN : \E inference_ok \in BOOLEAN :
          answers' = Append(answers,
              [endpoint |-> endpoint,
               status |-> IF ~IsSet(ocr_engine) THEN 503
                          ELSE IF ~image_ok THEN 500
                          ELSE IF StubMode(ocr_engine.v) THEN 200
                          ELSE IF inference_ok THEN 200 ELSE 500,
               stub |-> IsSet(ocr_engine) /\ StubMode(ocr_engine.v)])
    /\ UNCHANGED <<content, pc, records, calls, error, VLLM_AVAILABLE, loadable,
                   ocr_engine, loads>>
    /\ UNCHANGED <<parseVars, exportVars, fileVars, ocrVars, pipeVars>>

\* ------------------------------------------ PDFToContextPipeline.process
\* route_info.decision: the three decisions process names, and any other
Decisions == {"native", "ocr", "hybrid", "other"}
\* where the body of the try can raise, if it does; the except clause is
\* the same for all of them
Stages == {"none", "analysis", "routing", "extraction"}

\* the page data of a page: which page it was extracted from, and by what;
\* the fallback branch extracts natively
PageData(p, decision) ==
    [page |-> p, source |-> IF decision = "other" THEN "native" ELSE decision]
\* the empty page data the except clause appends
EmptyData == [page |-> -1, source |-> "empty"]

\* the counter a decision increments; the fallback branch increments none
Counted(st, decision) ==
    CASE decision = "native" -> [st EXCEPT !.native_pages = @ + 1]
      [] decision = "ocr" -> [st EXCEPT !.ocr_pages = @ + 1]
      [] decision = "hybrid" -> [st EXCEPT !.hybrid_pages = @ + 1]
      [] OTHER -> st

\* process is called with a document of n pages: PDFParser opens it or
\* raises; total_pages is set, extracted_data = []
ProcessCall ==
    /\ pc \in {"idle", "processed", "process_raised"}
    /\ docs < MaxDocs
    /\ docs' = docs + 1
    /\ built' = None
    /\ \E opened \in BOOLEAN : \E n \in 0..MaxPages :
          IF opened
          THEN /\ pdf_pages' = n
               /\ pipeline_stats' = [pipeline_stats EXCEPT !.total_pages = n]
               /\ extracted_data' = <<>>
               /\ page_num' = 0
               /\ error' = None
               /\ pc' = "page"
          ELSE /\ error' = Some("Exception")
               /\ pc' = "process_raised"
               /\ UNCHANGED <<pdf_pages, pipeline_stats, extracted_data, page_num>>
    /\ UNCHANGED <<content, records, calls>>
    /\ UNCHANGED <<parseVars, exportVars, fileVars, ocrVars, svcVars>>

\* one iteration of the loop, the except clause appending no page data
ProcessPage_NoPlaceholder ==
    /\ pc = "page"
    /\ page_num < pdf_pages
    /\ \E got \in BOOLEAN : \E stage \in Stages : \E decision \in Decisions :
          IF ~got
          THEN /\ error' = Some("Exception")
               /\ pc' = "process_raised"
               /\ UNCHANGED <<pipeline_stats, extracted_data, page_num>>
          ELSE /\ IF stage = "none"
                  THEN /\ pipeline_stats' = Counted(pipeline_stats, decision)
                       /\ extracted_data' =
                             Append(extracted_data, PageData(page_num, decision))
                  ELSE /\ pipeline_stats' =
                             [pipeline_stats EXCEPT !.errors =
                                 Append(@, [page |-> page_num + 1, error |-> "str(e)"])]
                       /\ UNCHANGED extracted_data
               /\ page_num' = page_num + 1
               /\ UNCHANGED <<pc, error>>
    /\ UNCHANGED <<content, records, calls, pdf_pages, built, docs>>
    /\ UNCHANGED <<parseVars, exportVars, fileVars, ocrVars, svcVars>>

\* one iteration of the loop of process: get_page outside the try; analysis,
\* routing, extraction and the counter inside; the except clause
ProcessPage ==
    /\ pc = "page"
    /\ page_num < pdf_pages
    /\ \E got \in BOOLEAN : \E stage \in Stages : \E decision \in Decisions :
          IF ~got
          THEN /\ error' = Some("Exception")
               /\ pc' = "process_raised"
               /\ UNCHANGED <<pipeline_stats, extracted_data, page_num>>
          ELSE /\ IF stage = "none"
                  THEN /\ pipeline_stats' = Counted(pipeline_stats, decision)
                       /\ extracted_data' =
                             Append(extracted_data, PageData(page_num, decision))
                  ELSE /\ pipeline_stats' =
                             [pipeline_stats EXCEPT !.errors =
                                 Append(@, [page |-> page_num + 1, error |-> "str(e)"])]
                       /\ extracted_data' = Append(extracted_data, EmptyData)
               /\ page_num' = page_num + 1
               /\ UNCHANGED <<pc, error>>
    /\ UNCHANGED <<content, records, calls, pdf_pages, built, docs>>
    /\ UNCHANGED <<parseVars, exportVars, fileVars, ocrVars, svcVars>>

\* after the loop: build_ir on extracted_data, structure analysis, Markdown,
\* the optional save, _print_stats and the return, any of which may raise
ProcessFinish ==
    /\ pc = "page"
    /\ page_num >= pdf_pages
    /\ built' = Some(extracted_data)
    /\ \E ok \in BOOLEAN :
          IF ok
          THEN pc' = "processed" /\ UNCHANGED error
          ELSE pc' = "process_raised" /\ error' = Some("Exception")
    /\ UNCHANGED <<content, records, calls, pipeline_stats, pdf_pages, page_num,
                   extracted_data, docs>>
    /\ UNCHANGED <<parseVars, exportVars, fileVars, ocrVars, svcVars>>

NextParse == ParseAnchor \/ ParseReturn
NextExport == ExportBegin \/ ExportRow \/ ExportFinish
Next == ParseAnchor \/ ParseReturn \/ ExportBegin \/ ExportRow \/ ExportFinish

\* the primary path: parse a text, export the records unchanged
Spec == Init /\ [][Next]_vars
\* export fed by another source
SpecExport == InitExport /\ [][NextExport]_vars

\* one MDParser parsing several texts in a row
NextRepeat == ParseAnchor \/ ParseReturn \/ ParseCall
SpecRepeat == InitRepeat /\ [][NextRepeat]_vars

\* one XLSXExporter exporting several record lists in a row
NextExportRepeat == ExportBegin \/ ExportRow \/ ExportFinish \/ ExportCall
SpecExportRepeat == InitExportRepeat /\ [][NextExportRepeat]_vars

\* the statistics sheet of any report
NextQuality == AddStatsSheet
SpecQuality == InitQuality /\ [][NextQuality]_vars

\* parse_md_file on a path
NextFile == ParseMdFile \/ ParseAnchor \/ ParseReturn
SpecFile == InitFile /\ [][NextFile]_vars

\* parse_md_content deciding the quantity of a chunk
SpecQty == InitQty /\ [][NextParse]_vars

\* parse_md_content extracting the name, the address and the document number
SpecFields == InitFields /\ [][NextParse]_vars

\* one call of OCRClient._make_request; the loop runs on by itself, each
\* POST bounded by the timeout of the session
NextOcr == MakeRequestAttempt \/ MakeRequestExhausted
SpecOcr == InitOcr /\ [][NextOcr]_vars /\ WF_vars(NextOcr)

\* the OCR service from its start on
NextService == Startup \/ OcrRequest
SpecService == InitService /\ [][NextService]_vars

\* one PDFToContextPipeline processing several documents in a row
NextPipeline == ProcessCall \/ ProcessPage \/ ProcessFinish
SpecPipeline == InitPipeline /\ [][NextPipeline]_vars

\* ======================================================== properties
\* smallest element of a non-empty set of integers
MinOf(S) == CHOOSE i \in S : \A j \in S : i <= j

\* the locals describe the iteration of anchor number idx - 1
Iterated == idx > 1
LastAnchor == CodeMatches(content)[idx - 1]
LastStart == Offset(content, LastAnchor)

\* C1: every record of the returned list has its address and its quantity
\* set, and an iteration that extracted no address or no quantity leaves the
\* list as it was.
Thm_C1_EmissionGate ==
    /\ [](\A i \in 1..Len(records) :
             IsSet(records[i].address) /\ IsSet(records[i].quantity))
    /\ [][(idx' = idx + 1 /\ (~IsSet(address') \/ ~IsSet(quantity')))
             => records' = records]_vars

\* an earlier chunk was emitted, the last one had an address and no quantity
\* and was dropped
Wit_C1_Dropped ==
    /\ Iterated /\ idx = 3
    /\ IsSet(address) /\ ~IsSet(quantity)
    /\ Len(records) = 1

\* places of a chunk where a quantity label with its number, a page-break
\* artifact and a second number follow one another
SplitAt(ch) ==
    {i \in 1..(Len(ch) - 2) :
        ch[i].k = "qty" /\ ch[i + 1].k = "brk" /\ ch[i + 2].k = "num"}

\* q is the number written by the digits of a followed by the digits of b
IsConcat(q, a, b) ==
    q % Pow10(NumDigits(b)) = b /\ q \div Pow10(NumDigits(b)) = a

\* C2: when the chunk holds label, number, page-break artifact, number, the
\* quantity is the second number of the leftmost such place: not the first
\* number, not the two numbers concatenated, also when a plain occurrence
\* of the label comes earlier in the chunk.
Thm_C2_SplitQuantity ==
    (Iterated /\ SplitAt(chunk) # {}) =>
        LET i == MinOf(SplitAt(chunk))
            first == chunk[i].n
            second == NumValue(chunk[i + 2])
        IN  /\ quantity = Some(second)
            /\ first # second => quantity.v # first
            /\ first # 0 => ~IsConcat(quantity.v, first, second)

\* a plain occurrence precedes the split one and the split one wins
Wit_C2_SplitAfterPlain ==
    /\ Iterated /\ SplitAt(chunk) # {}
    /\ \E j \in 1..Len(chunk) :
          /\ chunk[j].k = "qty" /\ j < MinOf(SplitAt(chunk))
          /\ chunk[j].n = 7
    /\ quantity = Some(9)

\* occurrences of the label followed by at least one digit
PlainAt(ch) == {i \in 1..Len(ch) : ch[i].k = "qty" /\ ch[i].w > QtyLabelLen + 1}

\* the qualifier lies within the 100 characters before offset start
QualifierWithin100(ch, start) ==
    \E j \in 1..Len(ch) :
        /\ ch[j].k = "enc"
        /\ Offset(ch, j) < start
        /\ start - Offset(ch, j) <= ContextLen

\* C3: when the split pattern matches nowhere in the chunk, the quantity is
\* decided by the first plain occurrence alone: unset if the qualifier is
\* within the 100 characters before it or its number is the sentinel, its
\* number otherwise; unset when there is no occurrence.
Thm_C3_SingleOccurrence ==
    (Iterated /\ SplitAt(chunk) = {}) =>
        IF PlainAt(chunk) = {} THEN quantity = None
        ELSE LET f == MinOf(PlainAt(chunk))
                 number == QtyValue(chunk[f])
             IN  IF QualifierWithin100(chunk, Offset(chunk, f)) \/ number = Sentinel
                 THEN quantity = None
                 ELSE quantity = Some(number)

\* the first occurrence is rejected, a later acceptable one is not used
Wit_C3_NoFallback ==
    /\ Iterated /\ SplitAt(chunk) = {}
    /\ Cardinality(PlainAt(chunk)) >= 2
    /\ chunk[MinOf(PlainAt(chunk))].n = Sentinel
    /\ \E j \in PlainAt(chunk) :
          chunk[j].n = 7 /\ ~QualifierWithin100(chunk, Offset(chunk, j))
    /\ quantity = None

\* anchors of the text that start at or after offset p
AnchorsFrom(p) ==
    {j \in 1..Len(content) : content[j].k = "anchor" /\ Offset(content, j) >= p}

\* ch is text[s:s + n] for the token a of text that starts at s
IsPrefixFrom(ch, text, a) ==
    /\ Len(ch) <= Len(text) - a + 1
    /\ \A i \in 1..Len(ch) :
          /\ [ch[i] EXCEPT !.w = 0] = [text[a + i - 1] EXCEPT !.w = 0]
          /\ IF i < Len(ch) THEN ch[i].w = text[a + i - 1].w
                            ELSE ch[i].w <= text[a + i - 1].w /\ ch[i].w >= 1

\* C4: the chunk of the anchor at s ends at the first anchor that starts at
\* or after s + 50, that anchor excluded; with no such anchor it is
\* text[s:s + 3000], at most 3000 characters.
Thm_C4_ChunkSegmentation ==
    Iterated =>
        IF AnchorsFrom(LastStart + SkipOffset) # {}
        THEN LET e == MinOf(AnchorsFrom(LastStart + SkipOffset))
             IN  /\ chunk = SubSeq(content, LastAnchor, e - 1)
                 /\ TextLen(chunk) = Offset(content, e) - LastStart
        ELSE /\ IsPrefixFrom(chunk, content, LastAnchor)
             /\ TextLen(chunk) = Min(TailCap, TextLen(content) - LastStart)
             /\ TextLen(chunk) <= TailCap

\* a chunk that ends at the next anchor, exactly 50 characters after its start
Wit_C4_NextAnchorAt50 ==
    /\ Iterated
    /\ AnchorsFrom(LastStart + SkipOffset) # {}
    /\ TextLen(chunk) = SkipOffset
    /\ Len(chunk) = 2

RECURSIVE IsSubseq(_, _)
IsSubseq(a, b) ==
    IF a = <<>> THEN TRUE
    ELSE IF b = <<>> THEN FALSE
    ELSE IF Head(a) = Head(b) THEN IsSubseq(Tail(a), Tail(b))
    ELSE IsSubseq(a, Tail(b))

RecordCodes == [i \in 1..Len(records) |-> records[i].owner_code]
AnchorCodes == [i \in 1..Len(CodeMatches(content)) |-> content[CodeMatches(content)[i]].c]

\* C5: the owner codes of the records, in list order, are a subsequence of
\* the owner codes of the anchors in text order, and there are no more
\* records than anchors.
Thm_C5_OrderPreserved ==
    /\ IsSubseq(RecordCodes, AnchorCodes)
    /\ Len(records) <= Len(CodeMatches(content))

\* two records with different codes were returned
Wit_C5_TwoRecords ==
    /\ pc = "parsed"
    /\ Len(records) = 2
    /\ records[1].owner_code # records[2].owner_code

\* C6: valid_records + invalid_records = total_records in the fresh report
\* and after every record export appends, whatever the records.
Thm_C6_ReportInvariant ==
    IsSet(report) =>
        report.v.valid_records + report.v.invalid_records = report.v.total_records

\* valid and invalid records have both been appended
Wit_C6_Mixed ==
    /\ IsSet(report) /\ pc = "rows"
    /\ report.v.valid_records >= 1 /\ report.v.invalid_records >= 1

\* the rows written so far carry the records 1..Len(ws) - 1
RowsWritten == IF ws = <<>> THEN {} ELSE 2..Len(ws)

RECURSIVE SumSetQuantity(_)
SumSetQuantity(n) ==
    IF n = 0 THEN 0
    ELSE SumSetQuantity(n - 1)
           + (IF IsSet(records[n].quantity) THEN records[n].quantity.v ELSE 0)

\* C8: after n records, total_records = n, missing_address and
\* missing_quantity count the records with that field unset, and
\* total_quantity is the sum of every set quantity, records without an
\* address included.
Thm_C8_Aggregation ==
    IsSet(report) =>
        LET n == row_idx - 2
        IN  /\ report.v.total_records = n
            /\ report.v.missing_address =
                  Cardinality({i \in 1..n : ~IsSet(records[i].address)})
            /\ report.v.missing_quantity =
                  Cardinality({i \in 1..n : ~IsSet(records[i].quantity)})
            /\ report.v.total_quantity = SumSetQuantity(n)

\* an invalid record's quantity is part of the total
Wit_C8_InvalidCounted ==
    /\ pc = "done" /\ Len(records) = 2
    /\ ~IsSet(records[1].address) /\ records[1].quantity = Some(5)
    /\ IsSet(records[2].address) /\ records[2].quantity = Some(7)
    /\ report.v.total_quantity = 12

\* C9: on the primary path the returned report has no invalid record and
\* no missing field, and valid_records = total_records = number of records.
Thm_C9_PrimaryPathAllValid ==
    pc = "done" =>
        /\ report.v.invalid_records = 0
        /\ report.v.missing_address = 0
        /\ report.v.missing_quantity = 0
        /\ report.v.valid_records = Len(records)
        /\ report.v.total_records = Len(records)

\* a chunk was dropped, another one was emitted and exported
Wit_C9_OneDroppedOneExported ==
    /\ pc = "done"
    /\ Len(CodeMatches(content)) = 2
    /\ Len(records) = 1
    /\ report.v.valid_records = 1

\* the qualifier is within the 100 characters before the chunk's first
\* quantity occurrence
QualifiedChunk(ch) ==
    PlainAt(ch) # {} /\ QualifierWithin100(ch, Offset(ch, MinOf(PlainAt(ch))))

\* anchors whose chunk is qualified
QualifiedAnchors ==
    {a \in 1..Len(CodeMatches(content)) :
        QualifiedChunk(ChunkOf(content, Offset(content, CodeMatches(content)[a])))}

\* C10 as stated: for a chunk whose quantity occurrence has the qualifier
\* within the 100 characters before it, the quantity stays unset and the
\* report's missing_quantity is incremented for that chunk.
Orig_C10_MissingQuantityCounted ==
    pc = "done" =>
        /\ (Iterated /\ QualifiedChunk(chunk)) => quantity = None
        /\ report.v.missing_quantity >= Cardinality(QualifiedAnchors)

\* C10 amended: for a chunk in which the split pattern does not match and
\* the first quantity occurrence has the qualifier within the 100 characters
\* before it, the quantity stays unset and the chunk is dropped at the
\* emission gate: no record is appended for it, and missing_quantity of the
\* returned report is not incremented (it is 0).
Thm_C10_QualifiedChunkDropped ==
    /\ [][(idx' = idx + 1 /\ SplitAt(chunk') = {} /\ QualifiedChunk(chunk'))
             => (quantity' = None /\ records' = records)]_vars
    /\ [](pc = "done" => report.v.missing_quantity = 0)

\* a qualified chunk with an address went through parse and export
Wit_C10_QualifiedWithAddress ==
    /\ pc = "done"
    /\ QualifiedChunk(chunk) /\ SplitAt(chunk) = {}
    /\ IsSet(address) /\ quantity = None
    /\ records = <<>>
    /\ report.v.missing_quantity = 0

\* C11: a text without an anchor yields an empty list, and exporting that
\* list yields a report with total_records = 0.
Thm_C11_NoAnchorsNoRecords ==
    CodeMatches(content) = <<>> =>
        /\ records = <<>>
        /\ pc \in {"parse", "parsed", "rows", "done", "raised"}
        /\ pc \in {"parsed", "rows", "done", "raised"} =>
              calls = <<[text |-> content, result |-> <<>>]>>
        /\ IsSet(report) => report.v.total_records = 0

\* a text with an address and a quantity but no anchor went through export
Wit_C11_TextWithoutAnchor ==
    /\ pc = "done"
    /\ CodeMatches(content) = <<>>
    /\ \E i \in 1..Len(content) : content[i].k = "qty"
    /\ report.v.total_records = 0

\* C12: two calls of parse_md_content on the same text return the same
\* list, also on one MDParser with other texts parsed in between.
Thm_C12_SameTextSameRecords ==
    \A i, j \in 1..Len(calls) :
        calls[i].text = calls[j].text => calls[i].result = calls[j].result

\* the first and the third call parse the same text and return two records,
\* the call between them parses another text
Wit_C12_RepeatedAfterOther ==
    /\ Len(calls) = 3
    /\ calls[1].text = calls[3].text
    /\ calls[2].text # calls[1].text
    /\ Len(calls[1].result) = 2
    /\ Len(calls[2].result) = 1

\* C13: quality is valid_records / total_records * 100 when total_records
\* > 0 and 0 when total_records = 0, with no division by zero; it is 80 for
\* 8 valid records of 10, and lies between 0 and 100.
Thm_C13_Quality ==
    IsSet(stats) =>
        LET q == stats.v.quality
            total == report.v.total_records
            valid == report.v.valid_records
        IN  /\ q.den # 0
            /\ total > 0 => q.num * total = valid * 100 * q.den
            /\ total = 0 => q.num = 0
            /\ (total = 10 /\ valid = 8) => (q.num = 80 * q.den /\ stats.v.text = 800)
            /\ q.num >= 0 /\ q.num <= 100 * q.den

\* the sheet of a report with 8 valid records of 10
Wit_C13_EightOfTen ==
    /\ pc = "stats_done"
    /\ report.v.total_records = 10 /\ report.v.valid_records = 8
    /\ stats.v.text = 800 /\ stats.v.color = "FF0000"

\* C19: when the file is missing or unreadable, parse_md_file lets the
\* error reach the caller and returns no list, empty or partial; the file
\* is opened once.
Thm_C19_ReadFailurePropagates ==
    /\ reads <= 1
    /\ (IsSet(file) /\ file.v.status # "ok") =>
          /\ pc \in {"open", "raised"}
          /\ records = <<>> /\ calls = <<>>
          /\ pc = "raised" => (IsSet(error) /\ reads = 1)
          /\ pc = "open" => (~IsSet(error) /\ reads = 0)

\* a missing file whose path was given: FileNotFoundError reached the caller
Wit_C19_MissingFile ==
    /\ pc = "raised"
    /\ file.v.status = "missing"
    /\ error = Some("FileNotFoundError")
    /\ reads = 1

Thm_C14_NameCap ==
    (idx > 1 /\ IsSet(full_name)) =>
        LET fio == FioCollapsed(chunk).v
            stored == full_name.v
        IN  /\ NameLen(stored) <= 200
            /\ ValueLen(fio) > 200 =>
                  /\ stored.dots
                  /\ TextLen(stored.toks) = 197
                  /\ stored.toks = Slice(fio, 0, 197)
                  /\ NameLen(stored) = 200
            /\ ValueLen(fio) <= 200 => (~stored.dots /\ stored.toks = fio)

\* a capture of 201 characters was cut, and the text around it is longer
Wit_C14_Capture201 ==
    /\ idx > 1 /\ IsSet(full_name)
    /\ ValueLen(FioCollapsed(chunk).v) = 201
    /\ full_name.v.dots

\* a '## <page word> N' marker in a value: inside a page break, or '##'
\* followed by the page word and a number
ContainsMarker(toks) ==
    \E i \in 1..Len(toks) :
        \/ HasMarker(toks[i])
        \/ /\ toks[i].k = "hash" /\ i + 1 <= Len(toks)
           /\ toks[i + 1].k = "pg" /\ toks[i + 1].w >= PageWordLen + 2

\* C15: page markers are removed from every captured span, for full_name
\* and for address alike: no extracted full_name and no extracted address
\* contains a marker.
Claim_C15_NoPageMarker ==
    idx > 1 =>
        /\ IsSet(full_name) => ~ContainsMarker(full_name.v.toks)
        /\ IsSet(address) => ~ContainsMarker(address.v)

\* the first address start of the chunk and the first terminator label
\* after it
FirstStart(ch) ==
    CHOOSE i \in 1..Len(ch) :
        /\ ch[i].k \in {"addr", "acode"}
        /\ \A j \in 1..(i - 1) : ch[j].k \notin {"addr", "acode"}
FirstTerminatorAfter(ch, s) ==
    CHOOSE j \in (s + 1)..Len(ch) :
        /\ IsTerminator(ch[j])
        /\ \A x \in (s + 1)..(j - 1) : ~IsTerminator(ch[x])

\* C16: the address starts at the 2-letter code that follows the address
\* label and ends before the first terminator label after it; the stored
\* value holds no terminator label and its whitespace is collapsed.
Claim_C16_Address ==
    (idx > 1 /\ IsSet(address)) =>
        /\ address.v # <<>>
        /\ Head(address.v).k \in {"addr", "acode"}
        /\ \A i \in 1..Len(address.v) :
              ~IsTerminator(address.v[i]) /\ address.v[i].k # "nl"
        /\ LET s == FirstStart(chunk)
           IN  address.v = SelectSeq(SubSeq(chunk, s, FirstTerminatorAfter(chunk, s) - 1),
                                     LAMBDA t : t.k # "nl")

\* a line holds an alphanumeric character: a digit or a letter of either
\* alphabet and either case
Alphanumeric(line) == \E m \in 1..Len(line) : line[m].k \notin {"punct", "hash"}

\* C17: with no date line in the document section document_number stays
\* unset; otherwise it is the nearest line above the first date line that
\* holds no exclusion keyword, holds an alphanumeric character and has at
\* least 3 characters, and it is unset if no line qualifies.
Claim_C17_DocumentNumber ==
    (idx > 1 /\ IsSet(DocSectionMatch(chunk))) =>
        LET lines == Lines(DocSectionMatch(chunk).v)
            dates == {m \in 1..Len(lines) : lines[m][1].k = "date"}
            above == {m \in 1..Len(lines) :
                         /\ \A d \in dates : m < d
                         /\ ~HasKeywords(lines[m])
                         /\ Alphanumeric(lines[m])
                         /\ ValueLen(lines[m]) >= 3}
        IN  IF dates = {} \/ above = {}
            THEN document_number = None
            ELSE document_number = Some(lines[CHOOSE m \in above : \A x \in above : x <= m])

Thm_C21_BinaryOutput ==
    /\ saves <= 1
    /\ saves = 1 =>
          /\ Len(ws) = Len(records) + 1
          /\ IsSet(stats) /\ Len(sheets) = 2
          /\ pc \in {"done", "raised"}
    /\ saved => (saves = 1 /\ pc = "done")
    /\ pc = "raised" => (~saved /\ IsSet(error) /\ returns = <<>>)
    /\ pc = "done" => (saved /\ Len(returns) = 1 /\ returns[1].report = report.v)

\* a save that failed after two rows and the statistics sheet were built
Wit_C21_SaveFailed ==
    /\ pc = "raised" /\ saves = 1 /\ ~saved
    /\ Len(ws) = 3 /\ IsSet(stats)
    /\ returns = <<>>

\* C22: the workbook has the owners sheet first and the statistics sheet
\* second and no other; the owners sheet has a header row of 7 columns and
\* one data row per record, the record at position i (from 0) in row i + 2.
Thm_C22_ArtifactLayout ==
    /\ Len(sheets) <= 2
    /\ Len(sheets) >= 1 => sheets[1] = "Owners"
    /\ Len(sheets) = 2 => sheets[2] = "Statistics"
    /\ pc = "done" =>
          /\ sheets = <<"Owners", "Statistics">>
          /\ ws[1] = HeaderRow /\ Len(ws[1].cells) = 7
          /\ Len(ws) = Len(records) + 1
          /\ \A i \in 0..(Len(records) - 1) :
                /\ ws[i + 2].cells = to_dict(records[i + 1])
                /\ Len(ws[i + 2].cells) = 7

\* three different records were written, each in its row
Wit_C22_ThreeRows ==
    /\ pc = "done" /\ Len(records) = 3
    /\ records[1] # records[2] /\ records[2] # records[3] /\ records[1] # records[3]
    /\ ws[4].cells = to_dict(records[3])

\* C23: every call of export starts from an all-zero report: the report a
\* call returns counts the records of that call only, whatever the calls
\* before it were given.
Thm_C23_FreshReport ==
    /\ \A k \in 1..Len(returns) :
          /\ returns[k].report.total_records = Len(returns[k].records)
          /\ returns[k].report.valid_records + returns[k].report.invalid_records
                = Len(returns[k].records)
    /\ pc = "rows" => report.v.total_records = row_idx - 2

\* a call with one record returned after a call with three records
Wit_C23_SecondCallSmaller ==
    /\ Len(returns) = 2
    /\ Len(returns[1].records) = 3 /\ returns[1].report.total_records = 3
    /\ Len(returns[2].records) = 1 /\ returns[2].report.total_records = 1

\* C24: every emitted record has a quantity of at least 1: a chunk whose
\* extracted number is 0, on the split path or on the single-occurrence
\* path, adds no record.
Thm_C24_PositiveQuantity ==
    /\ \A i \in 1..Len(records) :
          IsSet(records[i].quantity) /\ records[i].quantity.v >= 1
    /\ (Iterated /\ quantity = Some(0)) => records = <<>>

\* an address and a 0 after the page break: extracted, not emitted
Wit_C24_ZeroAfterBreak ==
    /\ Iterated /\ SplitAt(chunk) # {}
    /\ IsSet(address) /\ quantity = Some(0)
    /\ records = <<>>

\* the occurrence of the quantity label that gave the chunk its quantity
QuantitySource(ch) ==
    IF SplitAt(ch) # {} THEN MinOf(SplitAt(ch)) ELSE MinOf(PlainAt(ch))

\* C25 as stated: no emitted quantity is the sentinel and none has the
\* qualifier within the 100 characters before its occurrence, on either path.
Orig_C25_ExclusionOnBothPaths ==
    (Iterated /\ records # <<>>) =>
        /\ records[1].quantity.v # Sentinel
        /\ ~QualifierWithin100(chunk, Offset(chunk, QuantitySource(chunk)))

\* C25 amended: a quantity emitted from the single-occurrence path is not
\* the sentinel and has no qualifier within the 100 characters before its
\* occurrence; on the split path neither test is made and the second
\* number is emitted as it is, the sentinel and a qualified one included.
Thm_C25_ExclusionOnSinglePath ==
    (Iterated /\ records # <<>>) =>
        IF SplitAt(chunk) = {}
        THEN /\ records[1].quantity.v # Sentinel
             /\ ~QualifierWithin100(chunk, Offset(chunk, MinOf(PlainAt(chunk))))
        ELSE records[1].quantity = Some(NumValue(chunk[MinOf(SplitAt(chunk)) + 2]))

\* the sentinel after a page break, with the qualifier before the label: emitted
Wit_C25_SentinelAfterBreak ==
    /\ Iterated /\ SplitAt(chunk) # {}
    /\ Len(records) = 1 /\ records[1].quantity = Some(Sentinel)
    /\ QualifierWithin100(chunk, Offset(chunk, MinOf(SplitAt(chunk))))

\* whole anchor occurrences inside a chunk
AnchorsIn(ch) == {i \in 1..Len(ch) : ch[i].k = "anchor" /\ PhraseWhole(ch[i])}

\* anchors of the text after the one of the last iteration
LaterAnchors == AnchorsFrom(LastStart + 1)

Retryable == {"bad_json", "timeout", "connection", "http_5xx", "unexpected"}

\* the last_error the except clauses have left after the POSTs made so far
LastErrorAfter(ps) ==
    IF ps = <<>> THEN None ELSE Some(LastErrorOf(ps[Len(ps)]))

\* what holds at every point of a call of _make_request
RetryProtocol ==
    /\ Len(posts) <= max_retries
    /\ \A i \in 1..(Len(posts) - 1) : posts[i] \in Retryable
    /\ pc = "request" =>
          /\ \A i \in 1..Len(posts) : posts[i] \in Retryable
          /\ attempt = Len(posts)
          /\ response = None /\ error = None
    /\ pc = "returned" =>
          /\ posts # <<>> /\ posts[Len(posts)] = "ok"
          /\ response = Some(Len(posts))
          /\ error = None
    /\ pc = "request_raised" =>
          /\ error = Some("RuntimeError") /\ response = None
          /\ \/ posts # <<>> /\ posts[Len(posts)] = "http_4xx"
             \/ /\ Len(posts) = max_retries
                /\ \A i \in 1..Len(posts) : posts[i] \in Retryable
                /\ IsSet(message) /\ message.v.cause = LastErrorAfter(posts)

\* C27: _make_request makes at most max_retries POSTs; the first POST that
\* succeeds ends the call with its parsed response; a timeout, a connection
\* error, an error status from 500 or an unexpected exception is followed by
\* the next attempt; an error status below 500 raises RuntimeError at once;
\* with all attempts used up RuntimeError carries the last error; every call
\* ends with a response or a RuntimeError.
Thm_C27_RetryProtocol ==
    [](RetryProtocol) /\ <>(pc \in {"returned", "request_raised"})

\* three attempts, each failing in another retryable way, then RuntimeError
\* with the error of the third
Wit_C27_ThreeFailures ==
    /\ pc = "request_raised"
    /\ posts = <<"timeout", "http_5xx", "connection">>
    /\ message.v.cause = Some("Connection error")

\* ------------------------------------------------- stub fallback
\* C28: once startup_event is over the global ocr_engine is set, it is a
\* stub-mode engine whenever loading the model failed, and neither /ocr/page
\* nor /ocr/figure answers 503.
Claim_C28_StubFallback ==
    pc \in {"serving", "startup_failed"} =>
       /\ IsSet(ocr_engine)
       /\ (\E i \in 1..Len(loads) : ~loads[i].ok) => StubMode(ocr_engine.v)
       /\ \A i \in 1..Len(answers) : answers[i].status # 503

\* ------------------------------------------------ per-page isolation
\* a list of page data has one entry per page up to its length, in page
\* order: entry i is the data of page i - 1 or the empty placeholder
OnePerPage(data) ==
    \A i \in 1..Len(data) : data[i] = EmptyData \/ data[i].page = i - 1

\* at every point of process
PagesInOrder ==
    /\ pc = "page" => Len(extracted_data) = page_num /\ page_num <= pdf_pages
    /\ OnePerPage(extracted_data)
    /\ IsSet(built) => Len(built.v) = pdf_pages /\ OnePerPage(built.v)

\* a step that ends a page either appends the data of that page and leaves
\* the errors alone, or appends the empty placeholder and one error entry
\* naming the page, and the loop goes on
PageStep ==
    page_num' = page_num + 1 =>
       /\ pc' = "page"
       /\ Len(extracted_data') = Len(extracted_data) + 1
       /\ SubSeq(extracted_data', 1, Len(extracted_data)) = extracted_data
       /\ LET entry == extracted_data'[Len(extracted_data')]
              errors == pipeline_stats.errors
          IN IF entry = EmptyData
             THEN /\ Len(pipeline_stats'.errors) = Len(errors) + 1
                  /\ SubSeq(pipeline_stats'.errors, 1, Len(errors)) = errors
                  /\ pipeline_stats'.errors[Len(errors) + 1].page = page_num + 1
             ELSE /\ pipeline_stats'.errors = errors
                  /\ entry.page = page_num

\* C29: a page whose analysis, routing or extraction raises is recorded as
\* one entry of the errors list and replaced by empty page data, the loop
\* goes on with the next page, and build_ir is given exactly one entry per
\* page of the document, in page order.
Thm_C29_PerPageIsolation ==
    [](PagesInOrder) /\ [][PageStep]_vars

\* a two-page document whose first page raised: build_ir got the placeholder
\* and the data of the second page
Wit_C29_FirstPageFailed ==
    /\ pc = "processed" /\ docs = 1 /\ pdf_pages = 2
    /\ built = Some(<<EmptyData, PageData(1, "ocr")>>)
    /\ pipeline_stats.errors = <<[page |-> 1, error |-> "str(e)"]>>

\* ------------------------------------------------ pipeline statistics
\* C30: after every call of process, the first or a later one on the same
\* pipeline, native_pages + ocr_pages + hybrid_pages + the number of
\* recorded errors is at most total_pages of the document of that call.
Claim_C30_StatsOfThisDocument ==
    pc = "processed" =>
       pipeline_stats.native_pages + pipeline_stats.ocr_pages
         + pipeline_stats.hybrid_pages + Len(pipeline_stats.errors)
       <= pipeline_stats.total_pages

====
